---------------------------- MODULE Spec2Model ----------------------------
(***************************************************************************)
(* A model of raid.py: the Raid5Stripe class (a fixed-width list of data   *)
(* blocks protected by one XOR parity block) and its demonstration driver  *)
(* test_rebuild_stripe.                                                    *)
(*                                                                         *)
(* Python values are modelled as integers: a block's contents is a natural *)
(* number (a Python long), the Python object None is the integer None, and *)
(* an attribute that has not been assigned yet is Unset.  A Python         *)
(* expression that can raise evaluates to a record [exc, val]: exc is      *)
(* "none" when it returned val, and the exception's class name otherwise.  *)
(* Python lists are sequences; Python's index k is the sequence's k + 1.   *)
(***************************************************************************)
EXTENDS Integers, Sequences, FiniteSets, TLC

\* ------------------------------------------------------------------ bounds
\* Largest stripe width the callers of the model construct.
MaxWidth == 3
\* Block contents written by the callers of the model are 0..MaxVal.
MaxVal == 2
\* How far outside [0, width) the block ids of SpecAny reach.
MaxSlack == 1

\* Number of distinct byte values the demonstration driver draws from.
NumSamples == 2

\* ------------------------------------------------------- program constants
\* test_rebuild_stripe's default width.
TestWidth == 8
\* The largest block value the driver generates: random.randint(0, 0b11111111).
ByteMax == 255

\* ------------------------------------------------------------ Python values
None == -1
Unset == -2

Values == 0..MaxVal

Ok(v) == [exc |-> "none", val |-> v]
Raise(e) == [exc |-> e, val |-> None]

\* Bitwise exclusive or of two naturals (Python's ^ on non-negative longs).
RECURSIVE XOR(_, _)
XOR(a, b) ==
    IF a = 0 THEN b
    ELSE IF b = 0 THEN a
    ELSE (((a % 2) + (b % 2)) % 2) + 2 * XOR(a \div 2, b \div 2)

\* a ^ b as Python evaluates it: None has no __xor__, so it raises TypeError.
PyXor(a, b) ==
    IF a = None \/ b = None THEN Raise("TypeError") ELSE Ok(XOR(a, b))

\* XOR of all entries of a list of naturals (the mathematical parity).
RECURSIVE XorAll(_)
XorAll(list) ==
    IF list = <<>> THEN 0 ELSE XOR(Head(list), XorAll(Tail(list)))

\* list[i]: a negative index counts from the end; outside
\* [-len, len) it raises IndexError.
GetItem(list, i) ==
    IF i >= 0 /\ i < Len(list) THEN Ok(list[i + 1])
    ELSE IF i < 0 /\ i >= -Len(list) THEN Ok(list[i + Len(list) + 1])
    ELSE Raise("IndexError")

\* list[i] = v, for an index list[i] accepts.
SetItem(list, i, v) ==
    [list EXCEPT ![(IF i < 0 THEN i + Len(list) ELSE i) + 1] = v]

\* A slice bound as Python normalises it: negative bounds count from the
\* end, and the result is clamped to [0, len]; a slice never raises.
SliceBound(list, k) ==
    LET k2 == IF k < 0 THEN k + Len(list) ELSE k
    IN  IF k2 < 0 THEN 0 ELSE IF k2 > Len(list) THEN Len(list) ELSE k2

\* list[start:stop]
Slice(list, start, stop) ==
    SubSeq(list, SliceBound(list, start) + 1, SliceBound(list, stop))

\* list[start:]
SliceFrom(list, start) ==
    SubSeq(list, SliceBound(list, start) + 1, Len(list))

\* A list one block longer than asked for: [0L] * (width + 1).
ZeroBlocksOneMore(w) == [i \in 1..(IF w + 1 > 0 THEN w + 1 ELSE 0) |-> 0]

\* [0L] * width: an empty list when width <= 0.
ZeroBlocks(w) == [i \in 1..(IF w > 0 THEN w ELSE 0) |-> 0]

\* ------------------------------------------------------------- Raid5Stripe

\* The loop of calculate_parity's else branch: parity ^= block for each
\* block of the list, stopping at the first exception.
RECURSIVE ParityLoop(_, _)
ParityLoop(acc, list) ==
    IF acc.exc # "none" \/ list = <<>> THEN acc
    ELSE ParityLoop(PyXor(acc.val, Head(list)), Tail(list))

\* calculate_parity with the old block's contribution left in the parity:
\* the incremental branch computes new_block ^ self.parity.
calculate_parity_keeps_old(blks, par, old_block, new_block) ==
    IF old_block # None /\ new_block # None
    THEN PyXor(new_block, par)
    ELSE ParityLoop(GetItem(blks, 0), SliceFrom(blks, 1))

\* calculate_parity whose full branch starts from zero and loops over every
\* block, so that an empty list gives parity 0 instead of an IndexError.
calculate_parity_from_zero(blks, par, old_block, new_block) ==
    IF old_block # None /\ new_block # None
    THEN LET t == PyXor(old_block, new_block)
         IN  IF t.exc # "none" THEN t ELSE PyXor(t.val, par)
    ELSE ParityLoop(Ok(0), blks)

\* calculate_parity whose incremental branch leaves the stored parity out:
\* old_block ^ new_block.
calculate_parity_forgets_parity(blks, par, old_block, new_block) ==
    IF old_block # None /\ new_block # None
    THEN PyXor(old_block, new_block)
    ELSE ParityLoop(GetItem(blks, 0), SliceFrom(blks, 1))

\* calculate_parity(old_block, new_block) on a stripe with the given blocks
\* and parity.  Both arguments present: the incremental formula.  Otherwise
\* (either one is None): the XOR over the whole list, seeded with blocks[0].
calculate_parity(blks, par, old_block, new_block) ==
    IF old_block # None /\ new_block # None
    THEN LET t == PyXor(old_block, new_block)
         IN  IF t.exc # "none" THEN t ELSE PyXor(t.val, par)
    ELSE ParityLoop(GetItem(blks, 0), SliceFrom(blks, 1))

\* The loop of calculate_block: calculated_block starts as None, takes the
\* first block it meets and is XORed with each later one.
RECURSIVE BlockLoop(_, _)
BlockLoop(acc, list) ==
    IF acc.exc # "none" \/ list = <<>> THEN acc
    ELSE BlockLoop(IF acc.val # None THEN PyXor(acc.val, Head(list))
                                     ELSE Ok(Head(list)),
                   Tail(list))

\* calculate_block whose second slice starts at block_id: the block being
\* recalculated is XORed in with the others.
calculate_block_includes_self(blks, par, block_id) ==
    LET acc == BlockLoop(Ok(None),
                         Slice(blks, 0, block_id) \o SliceFrom(blks, block_id))
    IN  IF acc.exc # "none" THEN acc ELSE PyXor(acc.val, par)

\* calculate_block(block_id): XOR of blocks[0:block_id] + blocks[block_id+1:]
\* and the parity.
calculate_block(blks, par, block_id) ==
    LET acc == BlockLoop(Ok(None),
                         Slice(blks, 0, block_id) \o SliceFrom(blks, block_id + 1))
    IN  IF acc.exc # "none" THEN acc ELSE PyXor(acc.val, par)

\* read(block_id): the recalculated block, compared with the stored one.
read(blks, par, block_id) ==
    LET calculated_block == calculate_block(blks, par, block_id)
        stored == GetItem(blks, block_id)
    IN  IF calculated_block.exc # "none" THEN calculated_block
        ELSE IF stored.exc # "none" THEN stored
        ELSE IF calculated_block.val # stored.val THEN Raise("IOError")
        ELSE calculated_block

\* fast_read(block_id)
fast_read(blks, block_id) == GetItem(blks, block_id)

\* write that stores the new contents one block further (modulo the width).
write_wrong_block(blks, par, block_id, contents) ==
    LET old_block == GetItem(blks, block_id)
        new_parity == IF old_block.exc # "none" THEN old_block
                      ELSE calculate_parity(blks, par, old_block.val, contents)
    IN  IF new_parity.exc # "none"
        THEN [exc |-> new_parity.exc, blocks |-> blks, parity |-> par]
        ELSE [exc |-> "none",
              blocks |-> SetItem(blks, (block_id + 1) % Len(blks), contents),
              parity |-> new_parity.val]

\* write that recomputes the parity from the whole stripe after storing the
\* block, instead of updating it incrementally.
write_recomputes(blks, par, block_id, contents) ==
    LET old_block == GetItem(blks, block_id)
        stored == SetItem(blks, block_id, contents)
        new_parity == IF old_block.exc # "none" THEN old_block
                      ELSE calculate_parity(stored, par, None, None)
    IN  IF new_parity.exc # "none"
        THEN [exc |-> new_parity.exc, blocks |-> blks, parity |-> par]
        ELSE [exc |-> "none", blocks |-> stored, parity |-> new_parity.val]

\* write(block_id, contents): the exception raised, if any, and the blocks
\* and parity the stripe holds when the call ends.
write(blks, par, block_id, contents) ==
    LET old_block == GetItem(blks, block_id)
        new_parity == IF old_block.exc # "none" THEN old_block
                      ELSE calculate_parity(blks, par, old_block.val, contents)
    IN  IF new_parity.exc # "none"
        THEN [exc |-> new_parity.exc, blocks |-> blks, parity |-> par]
        ELSE [exc |-> "none",
              blocks |-> SetItem(blks, block_id, contents),
              parity |-> new_parity.val]

\* __init__(width): the attributes assigned, in order, until an exception.
init(w) ==
    LET blks == ZeroBlocks(w)
        par == calculate_parity(blks, Unset, None, None)
    IN  [exc |-> par.exc, width |-> w, blocks |-> blks,
         parity |-> IF par.exc = "none" THEN par.val ELSE Unset]

\* ------------------------------------------------------------------- state
VARIABLES
    constructed,      \* the constructor returned: a caller holds the stripe
    width,            \* self.width
    blocks,           \* self.blocks
    parity,           \* self.parity
    op,               \* the last call made on the stripe and how it ended
    corrupt,          \* history: the element changed behind the stripe's back,
                      \* and the XOR of its old and new value
    pc,               \* test_rebuild_stripe: where the driver is
    reference_blocks, \* test_rebuild_stripe: the values it writes
    written,          \* test_rebuild_stripe: iterations of the write loop done
    missing,          \* test_rebuild_stripe: the rebuild loop's variable
    writers,          \* concurrent calls: position and local variables
    overlap,          \* history: two write calls were in progress at once
    stale             \* history: a write call computed its parity from a
                      \* parity another call was about to replace

stripe == <<constructed, width, blocks, parity>>
driver == <<pc, reference_blocks, written, missing>>
threads == <<writers, overlap, stale>>
vars == <<stripe, op, corrupt, driver, threads>>

Call(name, arg, arg2, exc, ret) ==
    [name |-> name, arg |-> arg, arg2 |-> arg2, exc |-> exc, ret |-> ret]

NoCorruption == [kind |-> "none", idx |-> None, disc |-> 0]

\* No stripe yet, no driver running, no concurrent writers.
NoStripe ==
    /\ constructed = FALSE
    /\ width = Unset
    /\ blocks = <<>>
    /\ parity = Unset
    /\ op = Call("start", None, None, "none", None)
    /\ corrupt = NoCorruption

NoDriver ==
    /\ pc = "off"
    /\ reference_blocks = <<>>
    /\ written = 0
    /\ missing = None

NoThreads ==
    /\ writers = <<>>
    /\ overlap = FALSE
    /\ stale = FALSE

Init == NoStripe /\ NoDriver /\ NoThreads

\* stripe = Raid5Stripe(w)
New(w) ==
    /\ ~constructed
    /\ LET r == init(w)
       IN  /\ constructed' = (r.exc = "none")
           /\ width' = r.width
           /\ blocks' = r.blocks
           /\ parity' = r.parity
           /\ op' = Call("init", w, None, r.exc, None)
    /\ UNCHANGED <<corrupt, driver, threads>>

\* stripe.write(block_id, contents)
Write(block_id, contents) ==
    /\ constructed
    /\ LET r == write(blocks, parity, block_id, contents)
       IN  /\ blocks' = r.blocks
           /\ parity' = r.parity
           /\ op' = Call("write", block_id, contents, r.exc, None)
    /\ UNCHANGED <<constructed, width, corrupt, driver, threads>>

\* A read that repairs what it finds: on a mismatch it stores the
\* recalculated block before raising.
ReadRepairs(block_id) ==
    /\ constructed
    /\ LET r == read(blocks, parity, block_id)
           c == calculate_block(blocks, parity, block_id)
       IN  /\ op' = Call("read", block_id, None, r.exc, r.val)
           /\ blocks' = IF r.exc = "IOError" THEN SetItem(blocks, block_id, c.val)
                        ELSE blocks
    /\ UNCHANGED <<constructed, width, parity, corrupt, driver, threads>>

\* stripe.read(block_id)
Read(block_id) ==
    /\ constructed
    /\ LET r == read(blocks, parity, block_id)
       IN  op' = Call("read", block_id, None, r.exc, r.val)
    /\ UNCHANGED <<stripe, corrupt, driver, threads>>

\* stripe.fast_read(block_id)
FastRead(block_id) ==
    /\ constructed
    /\ LET r == fast_read(blocks, block_id)
       IN  op' = Call("fast_read", block_id, None, r.exc, r.val)
    /\ UNCHANGED <<stripe, corrupt, driver, threads>>

\* stripe.calculate_block(block_id)
CalculateBlock(block_id) ==
    /\ constructed
    /\ LET r == calculate_block(blocks, parity, block_id)
       IN  op' = Call("calculate_block", block_id, None, r.exc, r.val)
    /\ UNCHANGED <<stripe, corrupt, driver, threads>>

\* stripe.calculate_parity(old_block, new_block)
CalculateParity(old_block, new_block) ==
    /\ constructed
    /\ LET r == calculate_parity(blocks, parity, old_block, new_block)
       IN  op' = Call("calculate_parity", old_block, new_block, r.exc, r.val)
    /\ UNCHANGED <<stripe, corrupt, driver, threads>>

\* ------------------------------------------------ Spec: calls within range
\* The calls a caller makes within the documented argument ranges: a
\* positive width, block ids in [0, width), integer contents, and
\* calculate_parity with no argument or with both.
BlockIds == 0..(width - 1)

Calls ==
    \/ \E w \in 1..MaxWidth : New(w)
    \/ \E b \in BlockIds, v \in Values : Write(b, v)
    \/ \E b \in BlockIds : Read(b)
    \/ \E b \in BlockIds : FastRead(b)
    \/ \E b \in BlockIds : CalculateBlock(b)
    \/ \E o \in Values \cup {None} :
          \E n \in (IF o = None THEN {None} ELSE Values) : CalculateParity(o, n)

Next == Calls

Spec == Init /\ [][Next]_vars

\* --------------------------------------- SpecAny: every call Python accepts
\* Any width, block ids on both sides of [0, width), contents and parity
\* arguments that may be None.
AnyWidths == (-1)..MaxWidth
AnyBlockIds == (-(width + MaxSlack))..(width + MaxSlack - 1)
AnyValues == Values \cup {None}

AnyCalls ==
    \/ \E w \in AnyWidths : New(w)
    \/ \E b \in AnyBlockIds, v \in AnyValues : Write(b, v)
    \/ \E b \in AnyBlockIds : Read(b)
    \/ \E b \in AnyBlockIds : FastRead(b)
    \/ \E b \in AnyBlockIds : CalculateBlock(b)
    \/ \E o \in AnyValues, n \in AnyValues : CalculateParity(o, n)

NextAny == AnyCalls

SpecAny == Init /\ [][NextAny]_vars

\* ------------------------------- SpecCorrupt: silent corruption of a stripe
\* stripe.blocks[i] = v, done by the caller on a consistent stripe: the
\* block changes to a different value and the parity is not updated.
Corrupt(i, v) ==
    /\ constructed
    /\ corrupt.kind = "none"
    /\ v # blocks[i + 1]
    /\ blocks' = SetItem(blocks, i, v)
    /\ corrupt' = [kind |-> "block", idx |-> i, disc |-> XOR(blocks[i + 1], v)]
    /\ op' = Call("corrupt", i, v, "none", None)
    /\ UNCHANGED <<constructed, width, parity, driver, threads>>

\* stripe.parity = v, done by the caller on a consistent stripe.
CorruptParity(v) ==
    /\ constructed
    /\ corrupt.kind = "none"
    /\ v # parity
    /\ parity' = v
    /\ corrupt' = [kind |-> "parity", idx |-> None, disc |-> XOR(parity, v)]
    /\ op' = Call("corrupt_parity", None, v, "none", None)
    /\ UNCHANGED <<constructed, width, blocks, driver, threads>>

NextCorrupt ==
    \/ Calls
    \/ \E i \in BlockIds, v \in Values : Corrupt(i, v)
    \/ \E v \in Values : CorruptParity(v)

SpecCorrupt == Init /\ [][NextCorrupt]_vars

\* --------------------------------- SpecTest: the driver test_rebuild_stripe
\* The driver as __main__ runs it: reference_blocks is None and width is 8.
\* random.randint(0, 0b11111111) is a choice among the byte values of
\* ByteSamples.
ByteSamples == {ByteMax - 90 * k : k \in 0..(NumSamples - 1)}

InitTest ==
    /\ NoStripe
    /\ pc = "setup"
    /\ reference_blocks = <<>>
    /\ written = 0
    /\ missing = None
    /\ NoThreads

\* stripe = Raid5Stripe(width=width); reference_blocks = [random ...]
TestSetup ==
    /\ pc = "setup"
    /\ LET r == init(TestWidth)
       IN  /\ constructed' = (r.exc = "none")
           /\ width' = r.width
           /\ blocks' = r.blocks
           /\ parity' = r.parity
           /\ op' = Call("init", TestWidth, None, r.exc, None)
           /\ pc' = IF r.exc = "none" THEN "write" ELSE "failed"
    /\ \E rb \in [1..TestWidth -> ByteSamples] : reference_blocks' = rb
    /\ UNCHANGED <<written, missing, corrupt, threads>>

\* One iteration of: for block_id, contents in enumerate(reference_blocks):
\*     stripe.write(block_id=block_id, contents=contents)
TestWrite ==
    /\ pc = "write"
    /\ written < Len(reference_blocks)
    /\ LET contents == reference_blocks[written + 1]
           r == write(blocks, parity, written, contents)
       IN  /\ blocks' = r.blocks
           /\ parity' = r.parity
           /\ op' = Call("write", written, contents, r.exc, None)
           /\ pc' = IF r.exc = "none" THEN "write" ELSE "failed"
    /\ written' = written + 1
    /\ UNCHANGED <<constructed, width, reference_blocks, missing, corrupt, threads>>

\* The write loop is exhausted; for missing in range(stripe.width) begins.
TestWritesDone ==
    /\ pc = "write"
    /\ written = Len(reference_blocks)
    /\ pc' = "rebuild"
    /\ missing' = 0
    /\ UNCHANGED <<stripe, op, reference_blocks, written, corrupt, threads>>

\* One iteration of the rebuild loop:
\*     calculated_block = stripe.calculate_block(missing)
\*     assert calculated_block == stripe.blocks[missing]
TestRebuild ==
    /\ pc = "rebuild"
    /\ missing < width
    /\ LET r == calculate_block(blocks, parity, missing)
           holds == r.exc = "none" /\ r.val = blocks[missing + 1]
       IN  /\ op' = Call("calculate_block", missing, None,
                         IF r.exc = "none" /\ ~holds THEN "AssertionError"
                         ELSE r.exc,
                         r.val)
           /\ pc' = IF holds THEN "rebuild" ELSE "failed"
    /\ missing' = missing + 1
    /\ UNCHANGED <<stripe, reference_blocks, written, corrupt, threads>>

\* The rebuild loop is exhausted and the driver returns.
TestDone ==
    /\ pc = "rebuild"
    /\ missing = width
    /\ pc' = "done"
    /\ UNCHANGED <<stripe, op, reference_blocks, written, missing, corrupt, threads>>

NextTest ==
    \/ TestSetup
    \/ TestWrite
    \/ TestWritesDone
    \/ TestRebuild
    \/ TestDone

SpecTest == InitTest /\ [][NextTest]_vars

\* ----------------------------- SpecConc: two write calls with no lock held
\* Two threads call stripe.write on different blocks of one stripe.  Each
\* executes the four statements of write in order; the statements of the
\* two calls interleave freely, as nothing in write excludes it.
Writers == {1, 2}
Other(t) == 3 - t

InitConc ==
    /\ constructed = TRUE
    /\ width \in 2..MaxWidth
    /\ blocks \in [1..width -> Values]
    /\ parity = XorAll(blocks)
    /\ op = Call("start", None, None, "none", None)
    /\ corrupt = NoCorruption
    /\ NoDriver
    /\ \E b1 \in BlockIds, b2 \in BlockIds, v1 \in Values, v2 \in Values :
          /\ b1 < b2
          /\ writers = [t \in Writers |->
                          [pc |-> "old_block",
                           block_id |-> IF t = 1 THEN b1 ELSE b2,
                           contents |-> IF t = 1 THEN v1 ELSE v2,
                           old_block |-> Unset,
                           parity |-> Unset]]
    /\ overlap = FALSE
    /\ stale = FALSE

\* A call is in progress from its first statement to its last.
InProgress(w) == w.pc \in {"parity", "store_block", "store_parity"}

Step(t, w) ==
    /\ writers' = [writers EXCEPT ![t] = w]
    /\ overlap' = (overlap \/ (InProgress(w) /\ InProgress(writers[Other(t)])))

\* old_block = self.blocks[block_id]
WriteOldBlock(t) ==
    /\ writers[t].pc = "old_block"
    /\ Step(t, [writers[t] EXCEPT
                  !.pc = "parity",
                  !.old_block = GetItem(blocks, writers[t].block_id).val])
    /\ UNCHANGED <<stripe, op, stale, corrupt, driver>>

\* parity = self.calculate_parity(old_block=old_block, new_block=contents)
WriteParity(t) ==
    /\ writers[t].pc = "parity"
    /\ Step(t, [writers[t] EXCEPT
                  !.pc = "store_block",
                  !.parity = calculate_parity(blocks, parity,
                                              writers[t].old_block,
                                              writers[t].contents).val])
    /\ stale' = (stale \/ writers[Other(t)].pc \in {"store_block", "store_parity"})
    /\ UNCHANGED <<stripe, op, corrupt, driver>>

\* self.blocks[block_id] = contents
WriteStoreBlock(t) ==
    /\ writers[t].pc = "store_block"
    /\ blocks' = SetItem(blocks, writers[t].block_id, writers[t].contents)
    /\ Step(t, [writers[t] EXCEPT !.pc = "store_parity"])
    /\ UNCHANGED <<constructed, width, parity, op, stale, corrupt, driver>>

\* The last statement of write with its assignment lost: the call returns
\* and self.parity keeps the value it had.
WriteStoreParityDropped(t) ==
    /\ writers[t].pc = "store_parity"
    /\ Step(t, [writers[t] EXCEPT !.pc = "done"])
    /\ op' = Call("write", writers[t].block_id, writers[t].contents, "none", None)
    /\ UNCHANGED <<stripe, stale, corrupt, driver>>

\* self.parity = parity, and the call returns
WriteStoreParity(t) ==
    /\ writers[t].pc = "store_parity"
    /\ parity' = writers[t].parity
    /\ Step(t, [writers[t] EXCEPT !.pc = "done"])
    /\ op' = Call("write", writers[t].block_id, writers[t].contents, "none", None)
    /\ UNCHANGED <<constructed, width, blocks, stale, corrupt, driver>>

NextConc ==
    \/ \E t \in Writers : WriteOldBlock(t)
    \/ \E t \in Writers : WriteParity(t)
    \/ \E t \in Writers : WriteStoreBlock(t)
    \/ \E t \in Writers : WriteStoreParity(t)

SpecConc == InitConc /\ [][NextConc]_vars

\* ------------------------ SpecReader: a write call and a concurrent reader
\* Thread 1 calls stripe.write; thread 2 calls stripe.read or
\* stripe.calculate_block once, at any point between the statements of the
\* write, as nothing in either method excludes it.
InitReader ==
    /\ constructed = TRUE
    /\ width \in 2..MaxWidth
    /\ blocks \in [1..width -> Values]
    /\ parity = XorAll(blocks)
    /\ op = Call("start", None, None, "none", None)
    /\ corrupt = NoCorruption
    /\ NoDriver
    /\ \E b \in BlockIds, v \in Values, c \in BlockIds :
          writers = [t \in Writers |->
                       [pc |-> IF t = 1 THEN "old_block" ELSE "reader",
                        block_id |-> IF t = 1 THEN b ELSE c,
                        contents |-> IF t = 1 THEN v ELSE None,
                        old_block |-> Unset,
                        parity |-> Unset]]
    /\ overlap = FALSE
    /\ stale = FALSE

\* Thread t runs stripe.read(block_id) and returns or raises.
ReaderRead(t) ==
    /\ writers[t].pc = "reader"
    /\ LET r == read(blocks, parity, writers[t].block_id)
       IN  op' = Call("read", writers[t].block_id, None, r.exc, r.val)
    /\ Step(t, [writers[t] EXCEPT !.pc = "done"])
    /\ UNCHANGED <<stripe, stale, corrupt, driver>>

\* Thread t runs stripe.calculate_block(block_id).
ReaderCalculateBlock(t) ==
    /\ writers[t].pc = "reader"
    /\ LET r == calculate_block(blocks, parity, writers[t].block_id)
       IN  op' = Call("calculate_block", writers[t].block_id, None, r.exc, r.val)
    /\ Step(t, [writers[t] EXCEPT !.pc = "done"])
    /\ UNCHANGED <<stripe, stale, corrupt, driver>>

NextReader ==
    \/ WriteOldBlock(1)
    \/ WriteParity(1)
    \/ WriteStoreBlock(1)
    \/ WriteStoreParity(1)
    \/ ReaderRead(2)
    \/ ReaderCalculateBlock(2)

SpecReader == InitReader /\ [][NextReader]_vars

\* ------------------------- SpecScenario: write four blocks, rebuild each one
\* The acceptance scenario: a caller constructs a stripe of width 4, writes
\* one value to each of blocks 0..3 in order, and recalculates every block,
\* as the loops of test_rebuild_stripe do.  The values are drawn from those
\* of the literal scenario, 0b0001, 0b0010, 0b0100, 0b1000 in this order
\* being one of the draws.
ScenarioWidth == 4
ScenarioBlocks == <<1, 2, 4, 8>>
ScenarioValues == {ScenarioBlocks[i] : i \in 1..Len(ScenarioBlocks)}

InitScenario ==
    /\ NoStripe
    /\ pc = "scenario"
    /\ reference_blocks = <<>>
    /\ written = 0
    /\ missing = None
    /\ NoThreads

\* stripe = Raid5Stripe(4), and the values to write are chosen.
ScenarioSetup ==
    /\ pc = "scenario"
    /\ LET r == init(ScenarioWidth)
       IN  /\ constructed' = (r.exc = "none")
           /\ width' = r.width
           /\ blocks' = r.blocks
           /\ parity' = r.parity
           /\ op' = Call("init", ScenarioWidth, None, r.exc, None)
           /\ pc' = IF r.exc = "none" THEN "write" ELSE "failed"
    /\ \E rb \in [1..ScenarioWidth -> ScenarioValues] : reference_blocks' = rb
    /\ UNCHANGED <<written, missing, corrupt, threads>>

NextScenario ==
    \/ ScenarioSetup
    \/ TestWrite
    \/ TestWritesDone
    \/ TestRebuild
    \/ TestDone

SpecScenario == InitScenario /\ [][NextScenario]_vars

\* ------------------------------------------------------------- properties

\* The XOR of all current blocks, as the parity is specified; defined on
\* lists that hold no None.
NoneFree(list) == \A i \in 1..Len(list) : list[i] # None
Consistent == NoneFree(blocks) /\ parity # None /\ parity = XorAll(blocks)

\* C1 (parity invariant): on a stripe constructed with a positive width,
\* after every call of any sequence of write(block_id, contents) calls with
\* block_id in [0, width), the stored parity is the XOR of all blocks.
C1_ParityInvariant ==
    constructed => /\ Len(blocks) = width
                   /\ parity = XorAll(blocks)

\* A write has replaced a non-zero block by another non-zero value in a
\* stripe of several blocks, and the parity is not zero.
C1_Witness ==
    /\ constructed /\ width >= 2
    /\ op.name = "write" /\ op.exc = "none" /\ op.arg2 # 0
    /\ parity # 0 /\ parity # op.arg2

\* C2 (reconstruction correctness): on every stripe of positive width,
\* width 1 included, whose parity is the XOR of its blocks,
\* calculate_block(i) returns blocks[i] for every i in [0, width).
C2_ReconstructReturnsBlock ==
    (constructed /\ Consistent /\ op.name = "calculate_block")
        => /\ op.exc = "none"
           /\ op.ret = blocks[op.arg + 1]

\* C4 (incremental equals full): the parity a write computes with the
\* incremental mode of calculate_parity, from the old block, the new contents
\* and the parity before the write, is the parity the full mode returns on
\* the blocks after the write.
C4_IncrementalEqualsFull ==
    [][(op'.name = "write" /\ op'.exc = "none")
          => LET old_block == GetItem(blocks, op'.arg)
                 incremental == calculate_parity(blocks, parity,
                                                 old_block.val, op'.arg2)
                 full == calculate_parity(blocks', parity', None, None)
             IN  /\ incremental.exc = "none"
                 /\ full.exc = "none"
                 /\ incremental.val = full.val
                 /\ parity' = full.val]_vars

\* A write has changed one block of a stripe whose other blocks are not all
\* zero: the new parity differs from the new contents.
C4_Witness ==
    /\ constructed /\ width >= 2
    /\ op.name = "write" /\ op.exc = "none"
    /\ blocks[op.arg + 1] = op.arg2 /\ op.arg2 # 0
    /\ parity # op.arg2

\* C6 (range checks): write, read, fast_read and calculate_block called
\* with block_id < 0 or block_id >= width fail with an out-of-range error
\* (IndexError) and leave every block and the parity unchanged.
C6_RangeChecks ==
    [][(/\ op'.name \in {"write", "read", "fast_read", "calculate_block"}
        /\ (op'.arg < 0 \/ op'.arg >= width))
          => /\ op'.exc = "IndexError"
             /\ UNCHANGED <<blocks, parity>>]_vars

\* C7 (write atomicity on failure): a write that ends in an error leaves
\* blocks and parity as they were, and a write that does not end in an
\* error leaves the parity equal to the XOR of the blocks, whatever the
\* block_id and the contents (None included).
C7_WriteAllOrNothing ==
    [][op'.name = "write"
          => IF op'.exc # "none" THEN UNCHANGED <<blocks, parity>>
             ELSE Consistent']_vars

\* C8 (read-only operations): calculate_block, calculate_parity (both
\* modes), read and fast_read leave width, every block and the parity
\* unchanged, whether they return a value or raise.
C8_ReadOnly ==
    [][op'.name \in {"read", "fast_read", "calculate_block", "calculate_parity"}
          => UNCHANGED <<constructed, width, blocks, parity>>]_vars

\* A read has raised on a stripe that holds non-zero data.
C8_Witness ==
    /\ constructed /\ width >= 2 /\ parity # 0
    /\ op.name = "read" /\ op.exc = "IOError"

\* C10 (non-positive width): constructing a stripe with width <= 0 raises
\* (the IndexError of calculate_parity's blocks[0]) and no stripe is
\* returned; every stripe a caller holds has width >= 1 and that many
\* blocks.
C10_NoNonPositiveWidth ==
    /\ constructed => (width >= 1 /\ Len(blocks) = width)
    /\ (op.name = "init" /\ op.arg <= 0)
          => (op.exc = "IndexError" /\ ~constructed)

\* A construction with a non-positive width has just failed.
C10_Witness ==
    /\ op.name = "init" /\ op.arg <= 0 /\ op.exc # "none"
    /\ ~constructed

\* C3 (single-fault recovery): in the driver's stripe of width 8, once the
\* 8 byte values are written to indices 0..7 in order, calculate_block(i)
\* returns the value written at i for each i, and does so from the other 7
\* blocks and the parity alone: whatever blocks[i] holds in its place.
C3_SingleFaultRecovery ==
    /\ pc # "failed"
    /\ (pc \in {"rebuild", "done"})
          => \A i \in 0..(TestWidth - 1) : blocks[i + 1] = reference_blocks[i + 1]
    /\ (pc = "rebuild" /\ missing < width)
          => \A lost \in ByteSamples \cup {0, None} :
                calculate_block(SetItem(blocks, missing, lost), parity, missing)
                    = Ok(reference_blocks[missing + 1])
    /\ (op.name = "calculate_block")
          => (op.exc = "none" /\ op.ret = reference_blocks[op.arg + 1])

\* The driver has rebuilt all 8 blocks of a stripe holding different values.
C3_Witness ==
    /\ pc = "done" /\ width = TestWidth /\ missing = TestWidth
    /\ op.name = "calculate_block" /\ op.ret = reference_blocks[TestWidth]
    /\ \E i \in 1..TestWidth : reference_blocks[i] # reference_blocks[TestWidth]

\* C5 (corruption detection): on a consistent stripe of any positive width,
\* once blocks[i] is overwritten with a different value and the parity is
\* not updated, read(i) raises IOError and fast_read(i) returns the
\* corrupted value.
C5_CorruptionDetected ==
    (op.name = "corrupt" /\ corrupt.kind = "block")
        => /\ read(blocks, parity, op.arg) = Raise("IOError")
           /\ fast_read(blocks, op.arg) = Ok(op.arg2)

\* C9 (lost update): when two write calls to different blocks have both
\* returned, the parity is the XOR of the blocks if the calls ran one after
\* the other; it is not if one call computed its parity while the other held
\* a computed parity it had not stored yet and both calls changed their block.
AllDone == writers # <<>> /\ \A t \in Writers : writers[t].pc = "done"

C9_LostUpdate ==
    AllDone => /\ ~overlap => Consistent
               /\ ~stale => Consistent
               /\ (stale /\ \A t \in Writers :
                              writers[t].old_block # writers[t].contents)
                     => ~Consistent

\* Both interleaved write calls have returned and the parity is not the XOR
\* of the blocks.
C9_Witness ==
    /\ AllDone /\ overlap /\ stale
    /\ parity # XorAll(blocks)

\* C11 (no half-applied write observed): a read or calculate_block that
\* runs concurrently with a write never sees the written block already
\* holding the new contents while the parity still holds the old value: a
\* read of the never corrupted stripe does not raise, and what either call
\* returns for index c is the block's contents before or after the write.
HalfApplied ==
    /\ writers[1].pc = "store_parity"
    /\ parity # writers[1].parity

C11_NoHalfAppliedObserved ==
    [][(op'.name \in {"read", "calculate_block"} /\ writers'[2].pc = "done")
          => /\ ~HalfApplied
             /\ op'.exc = "none"
             /\ op'.ret \in {blocks[op'.arg + 1]} \cup
                            (IF op'.arg = writers[1].block_id
                             THEN {writers[1].old_block, writers[1].contents}
                             ELSE {})]_vars

\* C12 (partial-argument parity call): calculate_parity called with exactly
\* one of old_block and new_block (the other None) fails with a caller
\* error and returns no parity: it selects neither mode for the caller.
C12_PartialArgumentsRejected ==
    (op.name = "calculate_parity" /\ ((op.arg = None) # (op.arg2 = None)))
        => (op.exc # "none" /\ op.ret = None)

\* C13 (initial state): constructing a stripe with a positive width gives
\* exactly width blocks, each zero, and parity zero, so that the parity is
\* the XOR of the blocks before any write.
C13_InitialState ==
    (op.name = "init" /\ op.arg >= 1)
        => /\ constructed /\ op.exc = "none"
           /\ width = op.arg
           /\ Len(blocks) = width
           /\ \A i \in 1..Len(blocks) : blocks[i] = 0
           /\ parity = 0
           /\ parity = XorAll(blocks)

\* A stripe of several blocks has just been constructed.
C13_Witness ==
    /\ op.name = "init" /\ op.exc = "none"
    /\ constructed /\ width >= 2 /\ Len(blocks) = width

\* C14 (literal scenario): on a new stripe of width 4, after write(0, 1),
\* write(1, 2), write(2, 4), write(3, 8), the parity is 15 and
\* calculate_block(2) returns 4.
C14_LiteralScenario ==
    (reference_blocks = ScenarioBlocks /\ written = ScenarioWidth)
        => /\ pc # "failed"
           /\ blocks = ScenarioBlocks
           /\ parity = 15
           /\ calculate_block(blocks, parity, 2) = Ok(4)
           /\ (op.name = "calculate_block" /\ op.arg = 2)
                 => (op.exc = "none" /\ op.ret = 4)

\* The four values of the scenario are written and block 2 was just
\* recalculated.
C14_Witness ==
    /\ reference_blocks = ScenarioBlocks /\ width = ScenarioWidth
    /\ pc = "rebuild" /\ missing = 3
    /\ op.name = "calculate_block" /\ op.arg = 2 /\ op.ret = 4
    /\ parity = 15

\* C15 (verified read on a consistent stripe): in every state reached from
\* construction by writes within range, for every positive width and every
\* block_id in [0, width), read(block_id) succeeds and returns what
\* fast_read(block_id) returns, the contents last written to that block.
C15_ReadReturnsStored ==
    (constructed /\ op.name = "read")
        => /\ op.exc = "none"
           /\ fast_read(blocks, op.arg) = Ok(op.ret)

\* C16 (frame of write): a successful write(block_id, contents) with
\* block_id in [0, width) sets blocks[block_id] to contents and changes
\* nothing else but the parity: width and every other block stay.
C16_WriteFrame ==
    [][(op'.name = "write" /\ op'.exc = "none")
          => /\ width' = width /\ constructed' = constructed
             /\ Len(blocks') = Len(blocks)
             /\ blocks'[op'.arg + 1] = op'.arg2
             /\ \A j \in 1..Len(blocks) :
                   j # op'.arg + 1 => blocks'[j] = blocks[j]]_vars

\* A write has stored a value in one block of a stripe whose other blocks
\* hold different, non-zero values.
C16_Witness ==
    /\ constructed /\ width >= 2
    /\ op.name = "write" /\ op.exc = "none"
    /\ blocks[op.arg + 1] = op.arg2
    /\ \E j \in 1..Len(blocks) :
          j # op.arg + 1 /\ blocks[j] # 0 /\ blocks[j] # op.arg2

\* C17 (write preserves the parity discrepancy): for any stripe, consistent
\* or not, and any write within range, parity XOR XOR(blocks) is the same
\* after the write as before: it is zero until an element is changed
\* directly and is the difference that change introduced, never zero, after
\* any sequence of writes that follows; no write ends in an error.
Discrepancy == XOR(parity, XorAll(blocks))

C17_DiscrepancyPreserved ==
    constructed => /\ Discrepancy = corrupt.disc
                   /\ corrupt.kind # "none" => Discrepancy # 0
                   /\ op.name = "write" => op.exc = "none"

\* A write to the corrupted block itself has returned and the stripe is
\* still inconsistent.
C17_Witness ==
    /\ corrupt.kind = "block"
    /\ op.name = "write" /\ op.exc = "none" /\ op.arg = corrupt.idx
    /\ parity # XorAll(blocks)

\* C18 (corruption is detected from every index): in a stripe of width >= 2
\* that was consistent and had one element (a block or the parity) changed
\* to a different value, read(i) raises IOError for every i in [0, width).
C18_DetectedFromEveryIndex ==
    (constructed /\ width >= 2 /\ corrupt.kind # "none")
        => /\ \A i \in BlockIds : read(blocks, parity, i) = Raise("IOError")
           /\ op.name = "read" => op.exc = "IOError"

\* A read of a block other than the corrupted one has raised IOError.
C18_Witness ==
    /\ width >= 2 /\ corrupt.kind = "block"
    /\ op.name = "read" /\ op.arg # corrupt.idx /\ op.exc = "IOError"

=============================================================================
